---- MODULE Spec2Model ----
(***************************************************************************)
(* Model of nginx_config.py: the renderer, the filesystem installer        *)
(* (save_config), the process invoker (run_command), test_and_reload_nginx *)
(* and the orchestrator main(), over a small POSIX filesystem with         *)
(* symbolic links.                                                         *)
(*                                                                         *)
(* A path string is a record [abs, comps]; the filesystem maps absolute    *)
(* component sequences to nodes.  Each run of the tool is a process p      *)
(* whose position in main()/save_config() is pc[p].                        *)
(***************************************************************************)
EXTENDS Integers, Sequences, FiniteSets, TLC

VARIABLES fs, deny, pc, args, content, fd, existed, pre, result, tr, log,
          out, exit, runs, prev

vars == <<fs, deny, pc, args, content, fd, existed, pre, result, tr, log,
          out, exit, runs, prev>>

\* ------------------------------------------------------------------ bounds
MaxRuns == 2
MaxLinkDepth == 2

Procs == {1, 2}
SeqProcs == {1}

\* ------------------------------------------------------------------ paths
Path(a, c) == [abs |-> a, comps |-> c]
NoPath == Path(FALSE, <<>>)

\* the working directory of every run
Cwd == <<"srv">>

\* os.path.join(a, b): an absolute b discards a
Join(a, b) == IF b.abs THEN b ELSE Path(a.abs, a.comps \o b.comps)

Name(s) == Path(FALSE, <<s>>)

\* the absolute location a path string denotes when looked up from dir
AbsFrom(dir, p) == IF p.abs THEN p.comps ELSE dir \o p.comps

Parent(a) == SubSeq(a, 1, Len(a) - 1)

Prefixes(a) == {SubSeq(a, 1, k) : k \in 0..Len(a)}

\* ------------------------------------------------------------------ nodes
DirNode(o)     == [t |-> "dir",  data |-> <<>>, target |-> NoPath, own |-> o]
FileNode(d, o) == [t |-> "file", data |-> d,    target |-> NoPath, own |-> o]
LinkNode(p, o) == [t |-> "link", data |-> <<>>, target |-> p,      own |-> o]

\* lstat: the entry itself, symlinks not followed
Lexists(f, a) == a \in DOMAIN f

\* stat: follow symlinks from a; {} when the walk ends on nothing (ENOENT) or
\* runs out of depth (ELOOP), else the singleton of the node reached.
\* A relative link target is resolved from the directory holding the link.
RECURSIVE Resolve(_, _, _)
Resolve(f, a, depth) ==
    IF a \notin DOMAIN f THEN {}
    ELSE IF f[a].t = "link"
         THEN IF depth = 0 THEN {}
              ELSE Resolve(f, AbsFrom(Parent(a), f[a].target), depth - 1)
         ELSE {a}

\* os.path.exists(path): True only when the path, links followed, reaches a node
Exists(f, a) == Resolve(f, a, MaxLinkDepth) # {}

IsDir(f, a) == \E r \in Resolve(f, a, MaxLinkDepth) : f[r].t = "dir"

\* where open(path, 'w') lands: links are followed, the last one may dangle
RECURSIVE OpenTarget(_, _, _)
OpenTarget(f, a, depth) ==
    IF a \in DOMAIN f /\ f[a].t = "link"
    THEN IF depth = 0 THEN {}
         ELSE OpenTarget(f, AbsFrom(Parent(a), f[a].target), depth - 1)
    ELSE {a}

\* ------------------------------------------------------------------ inputs
\* strings are sequences of fragments; the two server names differ in length
ServerNames == {<<"a.com">>, <<"b", ".org">>}
ProxyPasses == {<<"http://localhost:3002">>}
Outputs     == {Name("site.conf"), Name("api.conf")}
EtcNginx    == Path(TRUE, <<"etc", "nginx">>)
RelConf     == Path(FALSE, <<"conf">>)
NginxPaths  == {EtcNginx, RelConf}

\* what the child process does: exit 0, exit non-zero, or cannot be launched
Outcomes == {"ok", "nonzero", "nolaunch"}

\* filesystem errors the environment may inject (permission denied on ...)
Denials == {"none", "mkdir", "write", "remove", "symlink"}

\* ------------------------------------------------------------------ renderer
create_nginx_config(server_name, proxy_pass) ==
    <<"server {", "listen 80;", "server_name ">> \o server_name \o
    <<";", "location / {", "proxy_pass ">> \o proxy_pass \o
    <<";", "proxy_set_header Host $host;",
      "proxy_set_header X-Real-IP $remote_addr;",
      "proxy_set_header X-Forwarded-For $proxy_add_x_forwarded_for;",
      "proxy_set_header X-Forwarded-Proto $scheme;",
      "proxy_cache_use_stale error timeout http_500 http_502 http_503 http_504;",
      "proxy_cache_bypass $http_upgrade;", "}",
      "location /_next/static/ {", "proxy_cache_valid 60m;", "proxy_pass ">> \o
    proxy_pass \o <<";", "}", "}">>

\* ------------------------------------------------------------------ process invoker
CmdResult(r, o, t) == [raised |-> r, ok |-> o, out |-> t]

\* run_command without its last except clause: a launch error escapes
run_command_NoCatchAll(outcome) ==
    CASE outcome = "ok"       -> CmdResult(FALSE, TRUE, "stdout")
      [] outcome = "nonzero"  -> CmdResult(FALSE, FALSE, "stderr")
      [] outcome = "nolaunch" -> CmdResult(TRUE, FALSE, "str(e)")

run_command(outcome) ==
    CASE outcome = "ok"       -> CmdResult(FALSE, TRUE, "stdout")
      [] outcome = "nonzero"  -> CmdResult(FALSE, FALSE, "stderr")
      [] outcome = "nolaunch" -> CmdResult(FALSE, FALSE, "str(e)")

\* ------------------------------------------------------------------ installer paths
available_path(a) == Join(a.nginx_path, Name("sites-available"))
enabled_path(a)   == Join(a.nginx_path, Name("sites-enabled"))
config_path(a)    == Join(available_path(a), a.output)
symlink_path(a)   == Join(enabled_path(a), a.output)

\* the absolute location of a path string the process itself uses
At(p) == AbsFrom(Cwd, p)

\* ------------------------------------------------------------------ filesystem calls
FsRes(o, e, f) == [ok |-> o, err |-> e, fs |-> f]

\* os.makedirs(path, exist_ok=True)
makedirs(f, d, a) ==
    IF IsDir(f, a) THEN FsRes(TRUE, "", f)
    ELSE IF Lexists(f, a) THEN FsRes(FALSE, "FileExistsError", f)
    ELSE IF \E q \in Prefixes(a) : Lexists(f, q) /\ ~IsDir(f, q)
         THEN FsRes(FALSE, "NotADirectoryError", f)
    ELSE IF d = "mkdir" THEN FsRes(FALSE, "PermissionError", f)
    ELSE FsRes(TRUE, "",
               f @@ [q \in {q \in Prefixes(a) : ~Lexists(f, q)} |-> DirNode(TRUE)])

\* open(path, 'w'): creates or truncates the file the path leads to
open_w(f, d, a) ==
    LET ts == OpenTarget(f, a, MaxLinkDepth) IN
    IF ts = {} THEN FsRes(FALSE, "OSError", f)
    ELSE LET t == CHOOSE x \in ts : TRUE IN
         IF d = "write" THEN FsRes(FALSE, "PermissionError", f)
         ELSE IF Lexists(f, t)
              THEN IF f[t].t = "file"
                   THEN FsRes(TRUE, "", [f EXCEPT ![t].data = <<>>])
                   ELSE FsRes(FALSE, "IsADirectoryError", f)
              ELSE IF IsDir(f, Parent(t))
                   THEN FsRes(TRUE, "", f @@ [q \in {t} |-> FileNode(<<>>, TRUE)])
                   ELSE FsRes(FALSE, "FileNotFoundError", f)

\* the file opened for append instead of truncate-and-write
write_at0_Append(old, new) == old \o new

\* f.write(content) and close on a descriptor opened at offset 0: the bytes
\* replace the head of the file and leave whatever lies beyond them
write_at0(old, new) ==
    IF Len(old) > Len(new) THEN new \o SubSeq(old, Len(new) + 1, Len(old)) ELSE new

\* os.remove(path): unlinks the entry itself, never what a link points at
remove(f, d, a) ==
    IF ~Lexists(f, a) THEN FsRes(FALSE, "FileNotFoundError", f)
    ELSE IF f[a].t = "dir" THEN FsRes(FALSE, "IsADirectoryError", f)
    ELSE IF d = "remove" /\ ~f[a].own THEN FsRes(FALSE, "PermissionError", f)
    ELSE FsRes(TRUE, "", [q \in DOMAIN f \ {a} |-> f[q]])

\* os.symlink(src, dst): dst must not exist; src is stored as given
symlink(f, d, src, a) ==
    IF Lexists(f, a) THEN FsRes(FALSE, "FileExistsError", f)
    ELSE IF ~IsDir(f, Parent(a)) THEN FsRes(FALSE, "FileNotFoundError", f)
    ELSE IF d = "symlink" THEN FsRes(FALSE, "PermissionError", f)
    ELSE FsRes(TRUE, "", f @@ [q \in {a} |-> LinkNode(src, TRUE)])

\* ------------------------------------------------------------------ results
\* save_config's return values: (True, config_path) and, from the except
\* clause that wraps every step, (False, str(e))
SaveResult(r, o, p, e) == [raised |-> r, ok |-> o, path |-> p, err |-> e]
NoResult == SaveResult(FALSE, FALSE, NoPath, "not called")
save_config_return(p) == SaveResult(FALSE, TRUE, p, "")
save_config_except(e) == SaveResult(FALSE, FALSE, NoPath, e)

NoTr == [ok |-> FALSE, msg |-> "not called"]
NoArgs == [ok |-> FALSE, server_name |-> <<>>, proxy_pass |-> <<>>,
           output |-> NoPath, nginx_path |-> NoPath,
           dry_run |-> FALSE, skip_reload |-> FALSE]
NoPrev == [ok |-> FALSE, nginx_path |-> NoPath, output |-> NoPath]

Effect(op, ok) == [op |-> op, ok |-> ok]
PathText(p) == (IF p.abs THEN <<"/">> ELSE <<>>) \o p.comps

\* ------------------------------------------------------------------ initial filesystems
BaseDirs == {<<>>, Cwd, <<"etc">>}
EntryKinds == {"absent", "file", "live", "dangling", "dir"}
Gone == Path(TRUE, <<"gone">>)

\* an installation directory as an administrator may have left it: both
\* subdirectories, an older site file, and some entry where the link will go
Populated(base, kind) ==
    LET b   == At(base)
        av  == Append(b, "sites-available")
        en  == Append(b, "sites-enabled")
        old == Append(av, "old.conf")
        e   == Append(en, "site.conf")
        dirs  == [q \in (Prefixes(av) \cup Prefixes(en)) |-> DirNode(FALSE)]
        files == [q \in {old} |-> FileNode(<<"old">>, FALSE)]
        entry == CASE kind = "absent"   -> [q \in {} |-> DirNode(FALSE)]
                   [] kind = "file"     -> [q \in {e} |-> FileNode(<<"stale">>, FALSE)]
                   [] kind = "live"     -> [q \in {e} |-> LinkNode(Path(TRUE, old), FALSE)]
                   [] kind = "dangling" -> [q \in {e} |-> LinkNode(Gone, FALSE)]
                   [] kind = "dir"      -> [q \in {e} |-> DirNode(FALSE)]
    IN  entry @@ files @@ dirs

Fresh == [q \in BaseDirs |-> DirNode(FALSE)]

InitialFs == {Fresh} \cup
             {Populated(EtcNginx, k) @@ Populated(RelConf, k) @@ Fresh : k \in EntryKinds}

Init ==
    /\ fs \in InitialFs
    /\ deny \in Denials
    /\ pc = [p \in Procs |-> "idle"]
    /\ args = [p \in Procs |-> NoArgs]
    /\ content = [p \in Procs |-> <<>>]
    /\ fd = [p \in Procs |-> <<>>]
    /\ existed = [p \in Procs |-> FALSE]
    /\ pre = [p \in Procs |-> "unchecked"]
    /\ result = [p \in Procs |-> NoResult]
    /\ tr = [p \in Procs |-> NoTr]
    /\ log = [p \in Procs |-> <<>>]
    /\ out = [p \in Procs |-> <<>>]
    /\ exit = [p \in Procs |-> -1]
    /\ runs = [p \in Procs |-> 0]
    /\ prev = [p \in Procs |-> NoPrev]

\* ------------------------------------------------------------------ main(): control decisions
\* main without the dry-run return
AfterRender_IgnoreDryRun(dry_run) == "mkdirs"

\* line 127: if args.dry_run: print and return
AfterRender(dry_run) == IF dry_run THEN "print" ELSE "mkdirs"

\* main testing and reloading whatever save_config returned
AfterInstall_IgnoreFailure(success, skip_reload) ==
    IF ~skip_reload THEN "test" ELSE "done"

\* main testing and reloading whatever --skip-reload says
AfterInstall_IgnoreSkip(success, skip_reload) ==
    IF success THEN "test" ELSE "done"

\* lines 136-151: test and reload only after a successful save, unless skipped
AfterInstall(success, skip_reload) ==
    IF success THEN (IF ~skip_reload THEN "test" ELSE "done") ELSE "done"

\* test_and_reload_nginx without the early return
AfterTest_AlwaysReload(success) == "reload"

\* lines 76-78: a failed test returns before the reload
AfterTest(success) == IF ~success THEN "final" ELSE "reload"

\* ------------------------------------------------------------------ actions
\* an exception that escapes to the interpreter ends the run with a traceback
Traceback(p) ==
    /\ pc' = [pc EXCEPT ![p] = "done"]
    /\ exit' = [exit EXCEPT ![p] = 1]

\* a step of save_config raised e: control goes to the except clause
Raise(p, e) ==
    LET r == save_config_except(e) IN
    /\ result' = [result EXCEPT ![p] = r]
    /\ IF r.raised THEN Traceback(p)
       ELSE /\ pc' = [pc EXCEPT ![p] = "report"]
            /\ exit' = exit

\* parser.parse_args() and the rendering that follows it; a new run of the
\* tool starts here.  argparse ends the process with status 2 when a required
\* option is missing.
Parse(p, oks, drys) ==
    /\ pc[p] \in {"idle", "done"}
    /\ runs[p] < MaxRuns
    /\ \E ok \in oks, sn \in ServerNames, pp \in ProxyPasses, o \in Outputs,
          np \in NginxPaths, dry \in drys, skip \in BOOLEAN :
         LET a == IF ok
                  THEN [ok |-> TRUE, server_name |-> sn, proxy_pass |-> pp,
                        output |-> o, nginx_path |-> np,
                        dry_run |-> dry, skip_reload |-> skip]
                  ELSE [NoArgs EXCEPT !.dry_run = dry, !.skip_reload = skip]
         IN  /\ args' = [args EXCEPT ![p] = a]
             /\ content' = [content EXCEPT ![p] =
                    IF ok THEN create_nginx_config(sn, pp) ELSE <<>>]
             /\ pc' = [pc EXCEPT ![p] = IF ok THEN AfterRender(dry) ELSE "done"]
             /\ exit' = [exit EXCEPT ![p] = IF ok THEN -1 ELSE 2]
             /\ out' = [out EXCEPT ![p] = IF ok THEN <<>> ELSE <<<<"usage:">>>>]
    /\ runs' = [runs EXCEPT ![p] = @ + 1]
    /\ prev' = [prev EXCEPT ![p] =
           IF result[p] # NoResult
           THEN [ok |-> result[p].ok, nginx_path |-> args[p].nginx_path,
                 output |-> args[p].output]
           ELSE @]
    /\ fd' = [fd EXCEPT ![p] = <<>>]
    /\ existed' = [existed EXCEPT ![p] = FALSE]
    /\ pre' = [pre EXCEPT ![p] = "unchecked"]
    /\ result' = [result EXCEPT ![p] = NoResult]
    /\ tr' = [tr EXCEPT ![p] = NoTr]
    /\ log' = [log EXCEPT ![p] = <<>>]
    /\ UNCHANGED <<fs, deny>>

ParseArgs(p) == Parse(p, BOOLEAN, BOOLEAN)

\* lines 127-131
PrintConfig(p) ==
    /\ pc[p] = "print"
    /\ out' = [out EXCEPT ![p] =
           <<<<"Generated configuration:">>, <<"-" >>, content[p]>>]
    /\ pc' = [pc EXCEPT ![p] = "done"]
    /\ exit' = [exit EXCEPT ![p] = 0]
    /\ UNCHANGED <<fs, deny, args, content, fd, existed, pre, result, tr, log,
                   runs, prev>>

\* lines 53-56
Makedirs(p) ==
    /\ pc[p] = "mkdirs"
    /\ LET r1 == makedirs(fs, deny, At(available_path(args[p])))
           r2 == makedirs(r1.fs, deny, At(enabled_path(args[p])))
       IN  IF ~r1.ok
           THEN /\ fs' = fs
                /\ log' = [log EXCEPT ![p] = Append(@, Effect("makedirs", FALSE))]
                /\ Raise(p, r1.err)
           ELSE IF ~r2.ok
           THEN /\ fs' = r1.fs
                /\ log' = [log EXCEPT ![p] =
                       @ \o <<Effect("makedirs", TRUE), Effect("makedirs", FALSE)>>]
                /\ Raise(p, r2.err)
           ELSE /\ fs' = r2.fs
                /\ log' = [log EXCEPT ![p] =
                       @ \o <<Effect("makedirs", TRUE), Effect("makedirs", TRUE)>>]
                /\ pc' = [pc EXCEPT ![p] = "open"]
                /\ UNCHANGED <<result, exit>>
    /\ UNCHANGED <<deny, args, content, fd, existed, pre, tr, out, runs, prev>>

\* lines 59-60: open(config_path, 'w')
OpenFile(p) ==
    /\ pc[p] = "open"
    /\ LET a == At(config_path(args[p]))
           r == open_w(fs, deny, a)
       IN  /\ fs' = r.fs
           /\ log' = [log EXCEPT ![p] = Append(@, Effect("open", r.ok))]
           /\ IF r.ok
              THEN /\ fd' = [fd EXCEPT ![p] =
                          CHOOSE t \in OpenTarget(fs, a, MaxLinkDepth) : TRUE]
                   /\ pc' = [pc EXCEPT ![p] = "write"]
                   /\ UNCHANGED <<result, exit>>
              ELSE /\ fd' = fd
                   /\ Raise(p, r.err)
    /\ UNCHANGED <<deny, args, content, existed, pre, tr, out, runs, prev>>

\* line 61 and the close at the end of the with block
WriteFile(p) ==
    /\ pc[p] = "write"
    /\ fs' = [fs EXCEPT ![fd[p]].data = write_at0(@, content[p])]
    /\ log' = [log EXCEPT ![p] = Append(@, Effect("write", TRUE))]
    /\ pc' = [pc EXCEPT ![p] = "exists"]
    /\ UNCHANGED <<deny, args, content, fd, existed, pre, result, tr, out, exit,
                   runs, prev>>

\* line 65: os.path.exists(symlink_path)
CheckExists(p) ==
    /\ pc[p] = "exists"
    /\ LET a == At(symlink_path(args[p]))
           e == Exists(fs, a)
       IN  /\ existed' = [existed EXCEPT ![p] = e]
           /\ pre' = [pre EXCEPT ![p] = IF Lexists(fs, a) THEN fs[a].t ELSE "absent"]
           /\ pc' = [pc EXCEPT ![p] = IF e THEN "remove" ELSE "symlink"]
    /\ UNCHANGED <<fs, deny, args, content, fd, result, tr, log, out, exit,
                   runs, prev>>

\* line 66: os.remove(symlink_path)
RemoveLink(p) ==
    /\ pc[p] = "remove"
    /\ LET r == remove(fs, deny, At(symlink_path(args[p])))
       IN  /\ fs' = r.fs
           /\ log' = [log EXCEPT ![p] = Append(@, Effect("remove", r.ok))]
           /\ IF r.ok
              THEN /\ pc' = [pc EXCEPT ![p] = "symlink"]
                   /\ UNCHANGED <<result, exit>>
              ELSE Raise(p, r.err)
    /\ UNCHANGED <<deny, args, content, fd, existed, pre, tr, out, runs, prev>>

\* lines 67-69: os.symlink(config_path, symlink_path); return True, config_path
Symlink(p) ==
    /\ pc[p] = "symlink"
    /\ LET r == symlink(fs, deny, config_path(args[p]), At(symlink_path(args[p])))
       IN  /\ fs' = r.fs
           /\ log' = [log EXCEPT ![p] = Append(@, Effect("symlink", r.ok))]
           /\ IF r.ok
              THEN /\ result' = [result EXCEPT ![p] =
                          save_config_return(config_path(args[p]))]
                   /\ pc' = [pc EXCEPT ![p] = "report"]
                   /\ exit' = exit
              ELSE Raise(p, r.err)
    /\ UNCHANGED <<deny, args, content, fd, existed, pre, tr, out, runs, prev>>

\* lines 134-139 and 150-151
ReportInstall(p) ==
    /\ pc[p] = "report"
    /\ LET next == AfterInstall(result[p].ok, args[p].skip_reload)
       IN  /\ pc' = [pc EXCEPT ![p] = next]
           /\ exit' = [exit EXCEPT ![p] = IF next = "done" THEN 0 ELSE @]
           /\ out' = [out EXCEPT ![p] =
                  IF result[p].ok
                  THEN @ \o <<<<"Configuration successfully created at:">>
                                \o PathText(result[p].path)>>
                         \o (IF next = "test"
                             THEN <<<<"Testing and reloading Nginx configuration...">>>>
                             ELSE <<>>)
                  ELSE Append(@, <<"Error creating configuration:", result[p].err>>)]
    /\ UNCHANGED <<fs, deny, args, content, fd, existed, pre, result, tr, log,
                   runs, prev>>

\* lines 76-78: run_command("nginx -t")
TestNginx(p) ==
    /\ pc[p] = "test"
    /\ \E o \in Outcomes :
         LET r == run_command(o) IN
         /\ log' = [log EXCEPT ![p] = Append(@, Effect("nginx -t", r.ok))]
         /\ IF r.raised
            THEN Traceback(p) /\ tr' = tr
            ELSE /\ pc' = [pc EXCEPT ![p] = AfterTest(r.ok)]
                 /\ exit' = exit
                 /\ tr' = [tr EXCEPT ![p] =
                        IF ~r.ok
                        THEN [ok |-> FALSE, msg |-> "Nginx configuration test failed:"]
                        ELSE @]
    /\ UNCHANGED <<fs, deny, args, content, fd, existed, pre, result, out,
                   runs, prev>>

\* a reload step that rolls the installation back when the reload fails
ReloadNginx_Rollback(p) ==
    /\ pc[p] = "reload"
    /\ \E o \in Outcomes :
         LET r == run_command(o) IN
         /\ log' = [log EXCEPT ![p] = Append(@, Effect("systemctl reload nginx", r.ok))]
         /\ fs' = IF r.ok THEN fs
                  ELSE [q \in DOMAIN fs \ {At(symlink_path(args[p]))} |-> fs[q]]
         /\ pc' = [pc EXCEPT ![p] = "final"]
         /\ tr' = [tr EXCEPT ![p] =
                IF ~r.ok
                THEN [ok |-> FALSE, msg |-> "Nginx reload failed:"]
                ELSE [ok |-> TRUE,
                      msg |-> "Nginx configuration tested and reloaded successfully!"]]
    /\ UNCHANGED <<deny, args, content, fd, existed, pre, result, out, exit,
                   runs, prev>>

\* lines 81-85: run_command("systemctl reload nginx")
ReloadNginx(p) ==
    /\ pc[p] = "reload"
    /\ \E o \in Outcomes :
         LET r == run_command(o) IN
         /\ log' = [log EXCEPT ![p] = Append(@, Effect("systemctl reload nginx", r.ok))]
         /\ IF r.raised
            THEN Traceback(p) /\ tr' = tr
            ELSE /\ pc' = [pc EXCEPT ![p] = "final"]
                 /\ exit' = exit
                 /\ tr' = [tr EXCEPT ![p] =
                        IF ~r.ok
                        THEN [ok |-> FALSE, msg |-> "Nginx reload failed:"]
                        ELSE [ok |-> TRUE,
                              msg |-> "Nginx configuration tested and reloaded successfully!"]]
    /\ UNCHANGED <<fs, deny, args, content, fd, existed, pre, result, out,
                   runs, prev>>

\* lines 141-149
ReportReload(p) ==
    /\ pc[p] = "final"
    /\ out' = [out EXCEPT ![p] =
           IF tr[p].ok
           THEN @ \o <<<<"Configuration test passed">>, <<"Nginx reloaded successfully">>>>
           ELSE @ \o <<<<"Error:", tr[p].msg>>,
                       <<"Please fix the configuration and run:">>,
                       <<"1. nginx -t">>, <<"2. systemctl reload nginx">>>>]
    /\ pc' = [pc EXCEPT ![p] = "done"]
    /\ exit' = [exit EXCEPT ![p] = 0]
    /\ UNCHANGED <<fs, deny, args, content, fd, existed, pre, result, tr, log,
                   runs, prev>>

\* ------------------------------------------------------------------ specifications
\* one run at a time, each to completion before the next starts
Next ==
    \E p \in SeqProcs :
        \/ ParseArgs(p)
        \/ PrintConfig(p)
        \/ Makedirs(p)
        \/ OpenFile(p)
        \/ WriteFile(p)
        \/ CheckExists(p)
        \/ RemoveLink(p)
        \/ Symlink(p)
        \/ ReportInstall(p)
        \/ TestNginx(p)
        \/ ReloadNginx(p)
        \/ ReportReload(p)

Spec == Init /\ [][Next]_vars

\* two runs of the tool started side by side on the same machine, their
\* system calls interleaved by the scheduler
StartInstall(p) == pc[p] = "idle" /\ Parse(p, {TRUE}, {FALSE})

NextConc ==
    \E p \in Procs :
        \/ StartInstall(p)
        \/ Makedirs(p)
        \/ OpenFile(p)
        \/ WriteFile(p)
        \/ CheckExists(p)
        \/ RemoveLink(p)
        \/ Symlink(p)
        \/ ReportInstall(p)
        \/ TestNginx(p)
        \/ ReloadNginx(p)
        \/ ReportReload(p)

SpecConc == Init /\ [][NextConc]_vars

\* ------------------------------------------------------------------ properties
TestCmd   == "nginx -t"
ReloadCmd == "systemctl reload nginx"

Ran(p, cmd) == \E i \in 1..Len(log[p]) : log[p][i].op = cmd
RanAny(p)   == Ran(p, TestCmd) \/ Ran(p, ReloadCmd)

\* save_config has returned in the current run of p
Installed(p) == result[p] # NoResult
Printed(p, line) == \E i \in 1..Len(out[p]) : out[p][i] = line

\* the layout a successful install is meant to leave for the arguments a
FileHolds(a, c) ==
    /\ Lexists(fs, At(config_path(a)))
    /\ fs[At(config_path(a))].t = "file"
    /\ fs[At(config_path(a))].data = c
LinkReaches(a) ==
    /\ Lexists(fs, At(symlink_path(a)))
    /\ fs[At(symlink_path(a))].t = "link"
    /\ Resolve(fs, At(symlink_path(a)), MaxLinkDepth) = {At(config_path(a))}

\* C1: the reload command is run only right after a test command that
\* succeeded in the same run, and a run whose test command failed (non-zero
\* exit or launch error) never runs the reload command.
C1_ReloadOnlyAfterPassedTest ==
    \A p \in Procs :
        /\ \A i \in 1..Len(log[p]) :
              log[p][i].op = ReloadCmd =>
                  i > 1 /\ log[p][i - 1] = Effect(TestCmd, TRUE)
        /\ (\E i \in 1..Len(log[p]) : log[p][i] = Effect(TestCmd, FALSE))
              => ~Ran(p, ReloadCmd)

C1_Witness ==
    \E p \in Procs :
        /\ pc[p] = "done"
        /\ Ran(p, ReloadCmd)
        /\ Len(log[p]) > 1
        /\ log[p][Len(log[p]) - 1] = Effect(TestCmd, TRUE)

\* C2: a run whose save_config returned failure runs neither the test nor
\* the reload command, also with --skip-reload off.
C2_FailedInstallRunsNothing ==
    \A p \in Procs : (Installed(p) /\ ~result[p].ok) => ~RanAny(p)

C2_Witness ==
    \E p \in Procs :
        /\ pc[p] = "done"
        /\ ~args[p].skip_reload
        /\ Installed(p) /\ ~result[p].ok
        /\ log[p][Len(log[p])] = Effect("remove", FALSE)

\* C3: a run with --dry-run makes no filesystem call that writes and starts
\* no process, whatever its other arguments; no step of it changes the
\* filesystem, and when its arguments parse it prints exactly the rendered
\* text under its header.
C3_DryRunNoEffects ==
    /\ [](\A p \in Procs :
            args[p].dry_run =>
                /\ log[p] = <<>>
                /\ ~Installed(p)
                /\ (pc[p] = "done" /\ args[p].ok) =>
                       out[p] = <<<<"Generated configuration:">>, <<"-">>,
                                  create_nginx_config(args[p].server_name,
                                                      args[p].proxy_pass)>>)
    /\ [][(\E p \in Procs : args'[p].dry_run /\ pc'[p] # pc[p]) => fs' = fs]_vars

C3_Witness ==
    \E p \in Procs :
        /\ pc[p] = "done" /\ exit[p] = 0
        /\ args[p].dry_run /\ args[p].ok
        /\ ~args[p].skip_reload
        /\ args[p].nginx_path = RelConf
        /\ Len(out[p]) = 3

\* C4: an install that follows a successful install to the same base path and
\* file name succeeds, leaves exactly its own content in the file and the
\* enabled entry a symlink that reaches the file.
C4_SecondInstallSucceeds ==
    \A p \in Procs :
        (/\ Installed(p)
         /\ prev[p].ok
         /\ prev[p].nginx_path = args[p].nginx_path
         /\ prev[p].output = args[p].output)
        => /\ result[p].ok
           /\ FileHolds(args[p], content[p])
           /\ LinkReaches(args[p])

\* C5: with no filesystem error injected, an install that finds a regular
\* file or a symlink (live or dangling) at the enabled path replaces it by a
\* symlink that reaches the file just written.
C5_ExistingEntryReplaced ==
    \A p \in Procs :
        (/\ Installed(p)
         /\ deny = "none"
         /\ pre[p] \in {"file", "link"})
        => /\ result[p].ok
           /\ LinkReaches(args[p])

\* C6: after a successful install the symlink's target is the absolute path
\* of the file written, for absolute and relative base paths, so the link
\* reaches the file.
C6_LinkTargetAbsolute ==
    \A p \in Procs :
        (Installed(p) /\ result[p].ok)
        => /\ Lexists(fs, At(symlink_path(args[p])))
           /\ fs[At(symlink_path(args[p]))].target =
                  Path(TRUE, At(config_path(args[p])))
           /\ LinkReaches(args[p])

\* C7 (as stated): every run ends with exit status 0.
C7_EveryRunExitsZero ==
    \A p \in Procs : pc[p] = "done" => exit[p] = 0

\* C7 (amended): every run whose command line parses ends with exit status 0
\* and no exception escapes; a failed install or a failed test or reload
\* command is held as a (False, message) result and printed.
C7_ParsedRunExitsZero ==
    \A p \in Procs :
        /\ ~result[p].raised
        /\ (pc[p] = "done" /\ args[p].ok) =>
              /\ exit[p] = 0
              /\ (Installed(p) /\ ~result[p].ok) =>
                     /\ result[p].err # ""
                     /\ Printed(p, <<"Error creating configuration:", result[p].err>>)
              /\ (\E i \in 1..Len(log[p]) :
                      log[p][i].op \in {TestCmd, ReloadCmd} /\ ~log[p][i].ok) =>
                     /\ ~tr[p].ok
                     /\ Printed(p, <<"Error:", tr[p].msg>>)

C7_Witness ==
    \E p \in Procs :
        /\ pc[p] = "done" /\ args[p].ok /\ exit[p] = 0
        /\ Len(log[p]) > 0
        /\ log[p][Len(log[p])] = Effect(ReloadCmd, FALSE)

\* C8: a run with --skip-reload and without --dry-run goes through the
\* installation and runs neither the test nor the reload command, whether
\* the installation succeeded or failed.
C8_SkipReloadInstallsOnly ==
    \A p \in Procs :
        (args[p].ok /\ args[p].skip_reload /\ ~args[p].dry_run) =>
            /\ ~RanAny(p)
            /\ pc[p] = "done" =>
                   /\ Installed(p)
                   /\ log[p] # <<>>
                   /\ log[p][Len(log[p])].ok = result[p].ok
                   /\ result[p].ok =>
                          /\ FileHolds(args[p], content[p])
                          /\ Lexists(fs, At(symlink_path(args[p])))
                          /\ fs[At(symlink_path(args[p]))] =
                                 LinkNode(config_path(args[p]), TRUE)

C8_Witness ==
    \E p \in Procs :
        /\ pc[p] = "done"
        /\ args[p].skip_reload /\ ~args[p].dry_run
        /\ result[p].ok
        /\ FileHolds(args[p], content[p])

\* C9: when the test or the reload command fails after a successful install,
\* the failure is printed, the file keeps the content just written and the
\* symlink stays as the install created it; no step after the install
\* changes the filesystem.
C9_NoRollback ==
    /\ [](\A p \in SeqProcs :
            (pc[p] \in {"final", "done"} /\ result[p].ok /\ tr[p] # NoTr /\ ~tr[p].ok)
            => /\ FileHolds(args[p], content[p])
               /\ Lexists(fs, At(symlink_path(args[p])))
               /\ fs[At(symlink_path(args[p]))] = LinkNode(config_path(args[p]), TRUE)
               /\ pc[p] = "done" => Printed(p, <<"Error:", tr[p].msg>>))
    /\ [][(\E p \in SeqProcs : pc[p] \in {"report", "test", "reload", "final"})
             => fs' = fs]_vars

C9_Witness ==
    \E p \in SeqProcs :
        /\ pc[p] = "done"
        /\ result[p].ok
        /\ log[p][Len(log[p])] = Effect(ReloadCmd, FALSE)
        /\ FileHolds(args[p], content[p])

\* two runs have both finished installing to the same absolute base path and
\* file name, no filesystem error was injected, and neither found a dangling
\* link or a directory at the enabled path
SameTargetRace ==
    /\ \A p \in Procs : Installed(p) /\ args[p].nginx_path.abs
    /\ args[1].nginx_path = args[2].nginx_path
    /\ args[1].output = args[2].output
    /\ deny = "none"
    /\ \A p \in Procs : pre[p] # "dir" /\ ~(pre[p] = "link" /\ ~existed[p])

\* what either sequential order of the two installs leaves: both succeed and
\* the file holds the content of the one that ran last
SequentialOutcome ==
    /\ \A p \in Procs : result[p].ok
    /\ \E p \in Procs : FileHolds(args[p], content[p])
    /\ LinkReaches(args[1])

\* C10: save_config takes no lock.  When two runs install to the same path
\* side by side, the only outcomes besides the sequential ones are those of
\* the race: an install fails because the other run created the link after
\* this run's check (FileExistsError) or removed it before this run's remove
\* (FileNotFoundError), or the file holds the shorter content followed by
\* the tail of the longer one.  At least one install succeeds and the
\* enabled link ends up in place.
C10_RaceOutcomes ==
    SameTargetRace =>
        /\ \A p \in Procs :
              ~result[p].ok => result[p].err \in {"FileExistsError", "FileNotFoundError"}
        /\ \E p \in Procs : result[p].ok
        /\ LinkReaches(args[1])
        /\ \/ \E p \in Procs : FileHolds(args[p], content[p])
           \/ \E p, q \in Procs :
                 /\ Len(content[p]) > Len(content[q])
                 /\ FileHolds(args[q],
                        content[q] \o SubSeq(content[p], Len(content[q]) + 1,
                                             Len(content[p])))

\* an interleaving in which one install fails and the file holds neither
\* run's content
C10_Witness ==
    /\ SameTargetRace
    /\ ~SequentialOutcome
    /\ \E p \in Procs : ~result[p].ok
    /\ \A p \in Procs : ~FileHolds(args[p], content[p])

====
